---- MODULE Spec2Model ----
(***************************************************************************)
(* Model of the CortexIA note assistant (src/assistent.py): the flat-file  *)
(* NoteManager, the language-model gateway and the conversation router     *)
(* (handle_callback / handle_message) driven by the per-user state map.    *)
(*                                                                         *)
(* Representation of Python values                                         *)
(*   text        a str as the sequence of its "_"-separated segments, so   *)
(*               that data.split("_")[k] is the (k+1)-th element;          *)
(*               "a_b" is <<"a", "b">>, "hello" is <<"hello">>             *)
(*   None        the empty sequence <<>> where a text is optional          *)
(*   note id     a str without "_", kept as a TLA+ string ("note1")        *)
(*   timestamps  the created / updated stamps are left out of the stored   *)
(*               records; get_recent_notes, the one operation that reads   *)
(*               them, is applied to files that carry them (stamped)       *)
(***************************************************************************)
EXTENDS Integers, Sequences, FiniteSets, TLC

(* ------------------------------ bounds -------------------------------- *)

MaxNotes == 2

MaxProjects == 2

MaxRefined == 2

(* is_english / process_with_ai: words per message    *)
MaxWords == 3

(* get_recent_notes: records in the file read, distinct created stamps *)
MaxStored == 3

MaxStamp == 2

(* ------------------------- configuration ------------------------------ *)

AUTHORIZED_USER_ID == 1

Users == {AUTHORIZED_USER_ID, AUTHORIZED_USER_ID + 1}

ALLOWED_USERS_everyone == Users

ALLOWED_USERS == {AUTHORIZED_USER_ID}

is_authorized(user_id) == user_id = AUTHORIZED_USER_ID

None == <<>>

(* Free texts a user may type (note contents, idea contents, titles). *)
Texts == {<<"hola">>, <<"p", "1">>}

(* Texts the language model may generate. *)
Responses == {<<"refined">>}

ApologyEn == <<"Sorry, I had a problem processing your message. Could you try again?">>

ApologyEs == <<"Lo siento, tuve un problema al procesar tu mensaje. ¿Podrías intentarlo de nuevo?">>

RefinePrompt == "Refina el siguiente texto"

(* ------------------------ language heuristic -------------------------- *)

english_words == {"the", "and", "is", "are", "was", "were", "have", "has",
                  "had", "this", "that", "these", "those", "what", "when",
                  "where", "why", "how", "who", "which"}

spanish_words == {"el", "la", "los", "las", "es", "son", "está", "están",
                  "tiene", "tienen", "este", "esta", "estos", "estas", "qué",
                  "cuándo", "dónde", "por qué", "cómo", "quién"}

RECURSIVE JoinUnderscore(_)
JoinUnderscore(t) ==
    IF Len(t) = 0 THEN ""
    ELSE IF Len(t) = 1 THEN t[1]
    ELSE t[1] \o "_" \o JoinUnderscore(Tail(t))

(* The words, as typed, of the messages whose language is detected. *)
RawWords == {"the", "The", "is", "el", "está", "fox"}

(* str.lower() of a word *)
Lower(w) == IF w = "The" THEN "the" ELSE w

WordSeqs == UNION {[1..n -> RawWords] : n \in 0..MaxWords}

RECURSIVE JoinSpace(_)
JoinSpace(ws) ==
    IF Len(ws) = 0 THEN ""
    ELSE IF Len(ws) = 1 THEN ws[1]
    ELSE ws[1] \o " " \o JoinSpace(Tail(ws))

(* The messages made of these words, as texts. *)
Messages == {<<JoinSpace(ws)>> : ws \in WordSeqs}

(* The strings of the model that hold no whitespace and no upper case. *)
PlainStrings == {JoinUnderscore(t) : t \in Texts \cup Responses}

(* text.lower().split(): the lower-cased words that, joined by blanks,    *)
(* give the string; a string without blanks is its own single word.       *)
LowerSplit(s) ==
    CASE s \in PlainStrings -> <<s>>
      [] s = ApologyEn[1] ->
            <<"sorry,", "i", "had", "a", "problem", "processing", "your",
              "message.", "could", "you", "try", "again?">>
      [] s = ApologyEs[1] ->
            <<"lo", "siento,", "tuve", "un", "problema", "al", "procesar",
              "tu", "mensaje.", "¿podrías", "intentarlo", "de", "nuevo?">>
      [] OTHER ->
            IF \E ws \in WordSeqs : JoinSpace(ws) = s
            THEN LET ws == CHOOSE ws \in WordSeqs : JoinSpace(ws) = s
                 IN  [k \in 1..Len(ws) |-> Lower(ws[k])]
            ELSE <<s>>

CountIn(words, set) == Cardinality({i \in 1..Len(words) : words[i] \in set})

is_english_ties_english(text) ==
    LET words == LowerSplit(JoinUnderscore(text))
    IN  CountIn(words, english_words) >= CountIn(words, spanish_words)

is_english(text) ==
    LET words == LowerSplit(JoinUnderscore(text))
    IN  CountIn(words, english_words) > CountIn(words, spanish_words)

Apology(text) == IF is_english(text) THEN ApologyEn ELSE ApologyEs

(* ----------------------------- Store ---------------------------------- *)

(* Outcome of the file accesses of one operation: r = reads succeed,      *)
(* w = writes succeed, per collection file.                               *)
AllOk == [nr |-> TRUE, nw |-> TRUE, pr |-> TRUE, pw |-> TRUE,
          rr |-> TRUE, rw |-> TRUE]

IoOutcomes(f) ==
    IF f THEN [nr : BOOLEAN, nw : BOOLEAN, pr : BOOLEAN, pw : BOOLEAN,
               rr : BOOLEAN, rw : BOOLEAN]
    ELSE {AllOk}

_load_json(file, ok) == IF ok THEN file ELSE <<>>

_save_json(file, data, ok) == IF ok THEN data ELSE file

(* -------------------------- NoteManager ------------------------------- *)

NoNote == [id |-> "", content |-> None, project_id |-> None, type |-> ""]

NoProject == [id |-> None, title |-> None]

IdNums == 0..(MaxNotes + 2)

Max(S) == CHOOSE m \in S : \A k \in S : k <= m

(* note["id"].startswith(prefix) and int(note["id"][len(prefix):]) parses *)
NumsWithPrefix(prefix, notes) ==
    {k \in IdNums : \E i \in 1..Len(notes) : notes[i].id = prefix \o ToString(k)}

_get_next_id_no_increment(prefix, notes) ==
    prefix \o ToString(Max(NumsWithPrefix(prefix, notes) \cup {0}))

_get_next_id_any_prefix(prefix, notes) ==
    prefix \o ToString(Max(UNION {NumsWithPrefix(q, notes) :
                                   q \in {"note", "projectnote", "idea"}}
                           \cup {0}) + 1)

_get_next_id(prefix, notes) ==
    prefix \o ToString(Max(NumsWithPrefix(prefix, notes) \cup {0}) + 1)

Truthy(text) == text # None /\ text # <<"">>

(* Result: the returned note and the notes file afterwards. *)
create_note_unsaved(file, content, project_id, io) ==
    LET loaded == _load_json(file, io.nr)
        prefix == IF Truthy(project_id) THEN "projectnote" ELSE "note"
        note   == [id |-> _get_next_id(prefix, loaded), content |-> content,
                   project_id |-> project_id, type |-> ""]
    IN  [ret |-> note, notes |-> file]

create_note(file, content, project_id, io) ==
    LET loaded == _load_json(file, io.nr)
        prefix == IF Truthy(project_id) THEN "projectnote" ELSE "note"
        note   == [id |-> _get_next_id(prefix, loaded), content |-> content,
                   project_id |-> project_id, type |-> ""]
    IN  [ret |-> note, notes |-> _save_json(file, Append(loaded, note), io.nw)]

create_idea(file, content, io) ==
    LET loaded == _load_json(file, io.nr)
        idea   == [id |-> _get_next_id("idea", loaded), content |-> content,
                   project_id |-> None, type |-> "idea"]
    IN  [ret |-> idea, notes |-> _save_json(file, Append(loaded, idea), io.nw)]

(* create_note / create_idea as the two file accesses they are made of:   *)
(* the load with the id allocation, and later the save of the loaded list  *)
(* with the new record appended.                                           *)
NoCall == [pc |-> "idle", loaded |-> <<>>, note |-> NoNote]

create_note_load(file, content, project_id, io) ==
    LET loaded == _load_json(file, io.nr)
        prefix == IF Truthy(project_id) THEN "projectnote" ELSE "note"
    IN  [pc |-> "loaded", loaded |-> loaded,
         note |-> [id |-> _get_next_id(prefix, loaded), content |-> content,
                   project_id |-> project_id, type |-> ""]]

create_idea_load(file, content, io) ==
    LET loaded == _load_json(file, io.nr)
    IN  [pc |-> "loaded", loaded |-> loaded,
         note |-> [id |-> _get_next_id("idea", loaded), content |-> content,
                   project_id |-> None, type |-> "idea"]]

create_save_without_append(file, call, io) ==
    _save_json(file, call.loaded, io.nw)

create_save(file, call, io) ==
    _save_json(file, Append(call.loaded, call.note), io.nw)

FirstIndex(seq, id) ==
    IF \E i \in 1..Len(seq) : seq[i].id = id
    THEN CHOOSE i \in 1..Len(seq) :
             seq[i].id = id /\ \A j \in 1..(i - 1) : seq[j].id # id
    ELSE 0

get_note(file, note_id, io) ==
    LET loaded == _load_json(file, io.nr)
        i == FirstIndex(loaded, note_id)
    IN  IF i = 0 THEN NoNote ELSE loaded[i]

(* list.sort(key=created, reverse=True) is stable: a record goes after    *)
(* every record whose stamp is greater than or equal to its own.          *)
insert_before_ties(sorted, x) ==
    LET k == Cardinality({i \in 1..Len(sorted) : sorted[i].created > x.created})
    IN  SubSeq(sorted, 1, k) \o <<x>> \o SubSeq(sorted, k + 1, Len(sorted))

insert_by_created(sorted, x) ==
    LET k == Cardinality({i \in 1..Len(sorted) : sorted[i].created >= x.created})
    IN  SubSeq(sorted, 1, k) \o <<x>> \o SubSeq(sorted, k + 1, Len(sorted))

RECURSIVE sort_created_reverse(_)
sort_created_reverse(seq) ==
    IF seq = <<>> THEN <<>>
    ELSE insert_by_created(sort_created_reverse(SubSeq(seq, 1, Len(seq) - 1)),
                           seq[Len(seq)])

get_recent_notes(file, limit, io) ==
    LET loaded == sort_created_reverse(_load_json(file, io.nr))
    IN  SubSeq(loaded, 1, IF limit < Len(loaded) THEN limit ELSE Len(loaded))

create_project_always_appends(file, title, io) ==
    LET loaded == _load_json(file, io.pr)
        project == [id |-> title, title |-> title]
    IN  [ret |-> project,
         projects |-> _save_json(file, Append(loaded, project), io.pw)]

create_project(file, title, io) ==
    LET loaded == _load_json(file, io.pr)
        i == FirstIndex(loaded, title)
        project == [id |-> title, title |-> title]
    IN  IF i # 0
        THEN [ret |-> loaded[i], projects |-> file]
        ELSE [ret |-> project,
              projects |-> _save_json(file, Append(loaded, project), io.pw)]

get_project(file, project_id, io) ==
    LET loaded == _load_json(file, io.pr)
        i == FirstIndex(loaded, project_id)
    IN  IF i = 0 THEN NoProject ELSE loaded[i]

get_projects(file, io) == _load_json(file, io.pr)

get_notes_by_project(file, project_id, io) ==
    SelectSeq(_load_json(file, io.nr), LAMBDA n : n.project_id = project_id)

(* Result: the returned flag, both files afterwards and the files written. *)
update_note_snapshot_after(nfile, rfile, note_id, content, io) ==
    LET loaded  == _load_json(nfile, io.nr)
        refined_notes == _load_json(rfile, io.rr)
        i == FirstIndex(loaded, note_id)
    IN  IF i # 0
        THEN LET updated == [loaded EXCEPT ![i].content = content]
                 refined_note ==
                     [id |-> note_id,
                      original_content |-> updated[i].content,
                      refined_content |-> content,
                      project_id |-> loaded[i].project_id]
             IN  [ret |-> TRUE,
                  refined |-> _save_json(rfile, Append(refined_notes, refined_note), io.rw),
                  notes |-> _save_json(nfile, updated, io.nw),
                  wrote |-> <<"refined", "notes">>]
        ELSE [ret |-> FALSE, refined |-> rfile, notes |-> nfile, wrote |-> <<>>]

update_note_upsert(nfile, rfile, note_id, content, io) ==
    LET loaded  == _load_json(nfile, io.nr)
        refined_notes == _load_json(rfile, io.rr)
        i == FirstIndex(loaded, note_id)
        refined_note ==
            [id |-> note_id,
             original_content |-> IF i # 0 THEN loaded[i].content ELSE None,
             refined_content |-> content,
             project_id |-> IF i # 0 THEN loaded[i].project_id ELSE None]
        updated == IF i # 0 THEN [loaded EXCEPT ![i].content = content] ELSE loaded
    IN  [ret |-> (i # 0),
         refined |-> _save_json(rfile, Append(refined_notes, refined_note), io.rw),
         notes |-> _save_json(nfile, updated, io.nw),
         wrote |-> <<"refined", "notes">>]

update_note_overwrites_history(nfile, rfile, note_id, content, io) ==
    LET loaded  == _load_json(nfile, io.nr)
        i == FirstIndex(loaded, note_id)
    IN  IF i # 0
        THEN LET refined_note ==
                     [id |-> note_id,
                      original_content |-> loaded[i].content,
                      refined_content |-> content,
                      project_id |-> loaded[i].project_id]
                 updated == [loaded EXCEPT ![i].content = content]
             IN  [ret |-> TRUE,
                  refined |-> _save_json(rfile, <<refined_note>>, io.rw),
                  notes |-> _save_json(nfile, updated, io.nw),
                  wrote |-> <<"refined", "notes">>]
        ELSE [ret |-> FALSE, refined |-> rfile, notes |-> nfile, wrote |-> <<>>]

update_note(nfile, rfile, note_id, content, io) ==
    LET loaded  == _load_json(nfile, io.nr)
        refined_notes == _load_json(rfile, io.rr)
        i == FirstIndex(loaded, note_id)
    IN  IF i # 0
        THEN LET refined_note ==
                     [id |-> note_id,
                      original_content |-> loaded[i].content,
                      refined_content |-> content,
                      project_id |-> loaded[i].project_id]
                 updated == [loaded EXCEPT ![i].content = content]
             IN  [ret |-> TRUE,
                  refined |-> _save_json(rfile, Append(refined_notes, refined_note), io.rw),
                  notes |-> _save_json(nfile, updated, io.nw),
                  wrote |-> <<"refined", "notes">>]
        ELSE [ret |-> FALSE, refined |-> rfile, notes |-> nfile, wrote |-> <<>>]

(* -------------------------- PromptManager ----------------------------- *)

(* The content of a prompt is the sequence of its blocks of text. *)
DefaultPrompt == <<"You are an intelligent and friendly personal assistant.">>

PromptContents == {DefaultPrompt} \cup Texts \cup Responses

(* PromptManager(): base prompt and context as loaded from their files. *)
LoadedPromptManager(content) ==
    [base_prompt      |-> [role |-> "system", content |-> content],
     base_prompt_file |-> [role |-> "system", content |-> content],
     context          |-> <<>>,
     context_file     |-> <<>>]

(* additional_context: a dict as the sequence of its items; None and {}   *)
(* are both the empty sequence, a value "" is a false one.                *)
ExtraContexts ==
    {<<>>,
     <<[k |-> "project", v |-> ""]>>,
     <<[k |-> "project", v |-> "hola"]>>,
     <<[k |-> "project", v |-> "hola"], [k |-> "note", v |-> ""],
       [k |-> "topic", v |-> "p_1"]>>}

(* Result: the prompt returned and the manager afterwards. *)
get_prompt_aliased(pm, additional_context) ==
    LET items == SelectSeq(additional_context, LAMBDA kv : kv.v # "")
        lines == [i \in 1..Len(items) |-> items[i].k \o ": " \o items[i].v]
        prompt == IF lines # <<>>
                  THEN [pm.base_prompt EXCEPT
                          !.content = @ \o <<"Current context:">> \o lines]
                  ELSE pm.base_prompt
    IN  [ret |-> prompt, pm |-> [pm EXCEPT !.base_prompt = prompt]]

get_prompt(pm, additional_context) ==
    LET items == SelectSeq(additional_context, LAMBDA kv : kv.v # "")
        lines == [i \in 1..Len(items) |-> items[i].k \o ": " \o items[i].v]
        prompt == IF lines # <<>>
                  THEN [pm.base_prompt EXCEPT
                          !.content = @ \o <<"Current context:">> \o lines]
                  ELSE pm.base_prompt
    IN  [ret |-> prompt, pm |-> pm]

(* The content is replaced in memory before the file is written; ok tells *)
(* whether the write succeeds.                                            *)
update_base_prompt(pm, new_content, ok) ==
    LET updated == [pm.base_prompt EXCEPT !.content = new_content]
    IN  [ret |-> ok,
         pm  |-> [pm EXCEPT !.base_prompt = updated,
                            !.base_prompt_file = IF ok THEN updated ELSE @]]

(* self.context[key] = value on a dict kept as the sequence of its items *)
SetItem(items, key, value) ==
    IF \E i \in 1..Len(items) : items[i].k = key
    THEN [i \in 1..Len(items) |->
            IF items[i].k = key THEN [k |-> key, v |-> value] ELSE items[i]]
    ELSE Append(items, [k |-> key, v |-> value])

set_context(pm, key, value, ok) ==
    LET updated == SetItem(pm.context, key, value)
    IN  [ret |-> ok,
         pm  |-> [pm EXCEPT !.context = updated,
                            !.context_file = IF ok THEN updated ELSE @]]

clear_context(pm, ok) ==
    [ret |-> ok,
     pm  |-> [pm EXCEPT !.context = <<>>,
                        !.context_file = IF ok THEN <<>> ELSE @]]

(* ---------------- NoteManager, random-token variant ------------------- *)

(* shortuuid.uuid()[:8]: any token the generator may return. *)
Tokens == {"3kTMd9xa", "Zq8vB2nP"}

NoCollections == [notes |-> <<>>, journal |-> <<>>, ideas |-> <<>>, projects |-> <<>>]

token_create_note(c, note_id, content, project_id) ==
    LET note == [id |-> note_id, content |-> content, project_id |-> project_id]
    IN  [ret |-> note, c |-> [c EXCEPT !.notes = Append(@, note)]]

token_create_journal_entry(c, entry_id, content) ==
    LET entry == [id |-> entry_id, content |-> content]
    IN  [ret |-> entry, c |-> [c EXCEPT !.journal = Append(@, entry)]]

token_create_idea(c, idea_id, content) ==
    LET idea == [id |-> idea_id, content |-> content]
    IN  [ret |-> idea, c |-> [c EXCEPT !.ideas = Append(@, idea)]]

token_create_project(c, project_id, title) ==
    LET project == [id |-> project_id, title |-> title]
    IN  [ret |-> project, c |-> [c EXCEPT !.projects = Append(@, project)]]

token_delete_note(c, note_id) ==
    LET i == FirstIndex(c.notes, note_id)
    IN  IF i = 0 THEN [ret |-> FALSE, c |-> c]
        ELSE [ret |-> TRUE,
              c |-> [c EXCEPT !.notes = SubSeq(@, 1, i - 1)
                                        \o SubSeq(@, i + 1, Len(@))]]

(* --------------------------- program state ---------------------------- *)

VARIABLES
    user_states,   \* user id -> pending state (key absent, None, str or dict)
    user_data,     \* user id -> context.user_data['waiting_for_base_prompt']
    notes,         \* contents of notes.json
    projects,      \* contents of projects.json
    refined,       \* contents of refined.json
    faulty,        \* whether file accesses may fail in this run
    returned,      \* ids returned by create_note / create_idea so far
    input_text,    \* the text handed to is_english / process_with_ai
    stamped,       \* a notes.json with the created stamps of its records
    result,        \* what the last call of one of these functions returned
    prompt_manager, \* a PromptManager: base prompt and context, loaded and on file
    in_flight,     \* create calls between their load and their save, per worker
    collections    \* the four files of the random-token NoteManager

vars == <<user_states, user_data, notes, projects, refined, faulty, returned,
          input_text, stamped, result, prompt_manager, in_flight, collections>>

NoResult ==
    [fn |-> "", outcome |-> "", limit |-> 0, english |-> FALSE, text |-> None,
     raised |-> FALSE, recent |-> <<>>]

NoContext == [title |-> None, notes |-> <<>>]

UserState(kind, state, project_id, note_id, context) ==
    [kind |-> kind, state |-> state, project_id |-> project_id,
     note_id |-> note_id, context |-> context]

(* user_id not in user_states *)
StAbsent == UserState("absent", "", None, "", NoContext)

(* user_states[user_id] = None *)
StNone == UserState("none", "", None, "", NoContext)

(* user_states[user_id] = "<s>" *)
StStr(s) == UserState("str", s, None, "", NoContext)

(* user_states[user_id] = {"state": s, ...}; a key left out has its default *)
StDict(s, project_id, note_id, context) ==
    UserState("dict", s, project_id, note_id, context)

(* Python's  state == "<s>" : true of the str s only, never of a dict *)
StateEq(st, s) == st.kind = "str" /\ st.state = s

Call(fn, id, text, ok) == [fn |-> fn, id |-> id, text |-> text, ok |-> ok]

Reply(tag, text) == [tag |-> tag, text |-> text]

(* The context argument of process_with_ai: a plain str or a project context. *)
GwStr(s) == [str |-> s, project |-> NoContext]

GwProject(c) == [str |-> "", project |-> c]

GatewayOutcomes(f) == IF f THEN {"ok", "fail", "raise"} ELSE {"ok", "fail"}

(* The program state as one value S, so that handlers are functions of it. *)
Cur ==
    [user_states |-> user_states, user_data |-> user_data, notes |-> notes,
     projects |-> projects, refined |-> refined]

(* What a handler leaves behind when it changes nothing: the pending state *)
(* and flag of user u, the three files, and its outputs (gateway calls,    *)
(* replies sent, NoteManager calls made, ids returned, exception raised).  *)
Keep(S, u) ==
    [state |-> S.user_states[u], wfbp |-> S.user_data[u], notes |-> S.notes,
     projects |-> S.projects, refined |-> S.refined,
     gw |-> <<>>, replies |-> <<>>, calls |-> <<>>, ids |-> <<>>,
     raised |-> FALSE]

(* The program state after user u's event was handled with result R. *)
After(S, u, R) ==
    [user_states |-> [S.user_states EXCEPT ![u] = R.state],
     user_data |-> [S.user_data EXCEPT ![u] = R.wfbp],
     notes |-> R.notes, projects |-> R.projects, refined |-> R.refined]

(* ----------------------- language-model gateway ----------------------- *)

(* out: "ok" the endpoint answers resp; "fail" the request or the parsing *)
(* of the answer fails; "raise" PromptManager() cannot load its files, so *)
(* building the prompt fails before the language is detected and the      *)
(* except clause itself raises.                                           *)
process_with_ai(message, context, out, resp) ==
    [call   |-> [message |-> message, context |-> context, out |-> out],
     raised |-> (out = "raise"),
     text   |-> IF out = "ok" THEN resp ELSE Apology(message)]

(* --------------------------- handle_callback -------------------------- *)

Eq(data, segs) == data = segs

(* data.startswith("<segs joined by _>_") *)
StartsWith(data, segs) ==
    Len(data) > Len(segs) /\ SubSeq(data, 1, Len(segs)) = segs

ProjectContext(project, project_notes) ==
    [title |-> project.title,
     notes |-> [i \in 1..Len(project_notes) |->
                   [id |-> project_notes[i].id,
                    content |-> project_notes[i].content]]]

cb_menu_main_keeps_state(S, u) ==
    [Keep(S, u) EXCEPT !.replies = <<Reply("main_menu", None)>>]

cb_menu_main(S, u) ==
    [Keep(S, u) EXCEPT !.state = StNone,
                       !.replies = <<Reply("main_menu", None)>>]

cb_cancel(S, u) ==
    [Keep(S, u) EXCEPT !.state = StNone,
                       !.replies = <<Reply("cancelled", None)>>]

cb_ask_project_without_notes_check(S, u, project_id, io) ==
    LET project == get_project(S.projects, project_id, io)
        project_notes == get_notes_by_project(S.notes, project_id, io)
        c1 == Call("get_project", "", project_id, project # NoProject)
        c2 == Call("get_notes_by_project", "", project_id, TRUE)
    IN  IF project # NoProject
        THEN [Keep(S, u) EXCEPT
                !.state = StDict("project_chat", project_id, "",
                                 ProjectContext(project, project_notes)),
                !.calls = <<c1, c2>>,
                !.replies = <<Reply("project_chat_ready", project.title)>>]
        ELSE [Keep(S, u) EXCEPT !.calls = <<c1>>]

cb_ask_project(S, u, project_id, io) ==
    LET project == get_project(S.projects, project_id, io)
        project_notes == get_notes_by_project(S.notes, project_id, io)
        c1 == Call("get_project", "", project_id, project # NoProject)
        c2 == Call("get_notes_by_project", "", project_id, TRUE)
    IN  IF project # NoProject
        THEN IF project_notes # <<>>
             THEN [Keep(S, u) EXCEPT
                     !.state = StDict("project_chat", project_id, "",
                                      ProjectContext(project, project_notes)),
                     !.calls = <<c1, c2>>,
                     !.replies = <<Reply("project_chat_ready", project.title)>>]
             ELSE [Keep(S, u) EXCEPT
                     !.calls = <<c1, c2>>,
                     !.replies = <<Reply("project_without_notes", project.title)>>]
        ELSE [Keep(S, u) EXCEPT !.calls = <<c1>>]

cb_project(S, u, project_id, io) ==
    LET project == get_project(S.projects, project_id, io)
        c1 == Call("get_project", "", project_id, project # NoProject)
        c2 == Call("get_notes_by_project", "", project_id, TRUE)
        c3 == Call("get_projects", "", None, TRUE)
    IN  IF project # NoProject
        THEN [Keep(S, u) EXCEPT !.calls = <<c1, c2>>,
                                !.replies = <<Reply("project_screen", project.title)>>]
        ELSE [Keep(S, u) EXCEPT !.calls = <<c1, c3>>,
                                !.replies = <<Reply("project_not_found", None)>>]

cb_new_project_note_unchecked(S, u, project_id, io) ==
    LET project == get_project(S.projects, project_id, io)
        c1 == Call("get_project", "", project_id, project # NoProject)
    IN  [Keep(S, u) EXCEPT
            !.state = StDict("waiting_for_project_note", project_id, "", NoContext),
            !.calls = <<c1>>,
            !.replies = <<Reply("project_note_prompt", project.title)>>]

cb_new_project_note_only_when_idle(S, u, project_id, io) ==
    LET project == get_project(S.projects, project_id, io)
        c1 == Call("get_project", "", project_id, project # NoProject)
        c3 == Call("get_projects", "", None, TRUE)
    IN  IF project # NoProject
        THEN [Keep(S, u) EXCEPT
                !.state = IF S.user_states[u].kind \in {"absent", "none"}
                          THEN StDict("waiting_for_project_note", project_id, "",
                                      NoContext)
                          ELSE S.user_states[u],
                !.calls = <<c1>>,
                !.replies = <<Reply("project_note_prompt", project.title)>>]
        ELSE [Keep(S, u) EXCEPT !.calls = <<c1, c3>>,
                                !.replies = <<Reply("project_not_found", None)>>]

cb_new_project_note(S, u, project_id, io) ==
    LET project == get_project(S.projects, project_id, io)
        c1 == Call("get_project", "", project_id, project # NoProject)
        c3 == Call("get_projects", "", None, TRUE)
    IN  IF project # NoProject
        THEN [Keep(S, u) EXCEPT
                !.state = StDict("waiting_for_project_note", project_id, "", NoContext),
                !.calls = <<c1>>,
                !.replies = <<Reply("project_note_prompt", project.title)>>]
        ELSE [Keep(S, u) EXCEPT !.calls = <<c1, c3>>,
                                !.replies = <<Reply("project_not_found", None)>>]

cb_refine_note_unchecked(S, u, note_id, io) ==
    LET note == get_note(S.notes, note_id, io)
        c1 == Call("get_note", note_id, None, note # NoNote)
    IN  [Keep(S, u) EXCEPT
           !.state = StDict("waiting_for_refinement", None, note_id, NoContext),
           !.calls = <<c1>>,
           !.replies = <<Reply("refine_confirm", note.content)>>]

cb_refine_note(S, u, note_id, io) ==
    LET note == get_note(S.notes, note_id, io)
        c1 == Call("get_note", note_id, None, note # NoNote)
    IN  IF note # NoNote
        THEN [Keep(S, u) EXCEPT
                !.state = StDict("waiting_for_refinement", None, note_id, NoContext),
                !.calls = <<c1>>,
                !.replies = <<Reply("refine_confirm", note.content)>>]
        ELSE [Keep(S, u) EXCEPT !.calls = <<c1>>]

cb_confirm_refine_needs_pending(S, u, note_id, io, out, resp) ==
    LET note == get_note(S.notes, note_id, io)
        c1 == Call("get_note", note_id, None, note # NoNote)
        ai == process_with_ai(note.content, GwStr(RefinePrompt), out, resp)
        up == update_note(S.notes, S.refined, note_id, ai.text, io)
    IN  IF note # NoNote /\ S.user_states[u].note_id = note_id
        THEN IF ai.raised
             THEN [Keep(S, u) EXCEPT !.calls = <<c1>>, !.gw = <<ai.call>>,
                                     !.raised = TRUE]
             ELSE [Keep(S, u) EXCEPT
                     !.notes = up.notes, !.refined = up.refined,
                     !.calls = <<c1, Call("update_note", note_id, ai.text, up.ret)>>,
                     !.gw = <<ai.call>>,
                     !.replies = <<Reply("note_refined", ai.text)>>]
        ELSE [Keep(S, u) EXCEPT !.calls = <<c1>>]

cb_confirm_refine_resets_on_failure(S, u, note_id, io, out, resp) ==
    LET note == get_note(S.notes, note_id, io)
        c1 == Call("get_note", note_id, None, note # NoNote)
        ai == process_with_ai(note.content, GwStr(RefinePrompt), out, resp)
        up == update_note(S.notes, S.refined, note_id, ai.text, io)
    IN  IF note # NoNote
        THEN IF ai.raised
             THEN [Keep(S, u) EXCEPT !.calls = <<c1>>, !.gw = <<ai.call>>,
                                     !.raised = TRUE]
             ELSE [Keep(S, u) EXCEPT
                     !.state = IF out = "ok" THEN S.user_states[u] ELSE StNone,
                     !.notes = up.notes, !.refined = up.refined,
                     !.calls = <<c1, Call("update_note", note_id, ai.text, up.ret)>>,
                     !.gw = <<ai.call>>,
                     !.replies = <<Reply("note_refined", ai.text)>>]
        ELSE [Keep(S, u) EXCEPT !.calls = <<c1>>]

cb_confirm_refine(S, u, note_id, io, out, resp) ==
    LET note == get_note(S.notes, note_id, io)
        c1 == Call("get_note", note_id, None, note # NoNote)
        ai == process_with_ai(note.content, GwStr(RefinePrompt), out, resp)
        up == update_note(S.notes, S.refined, note_id, ai.text, io)
    IN  IF note # NoNote
        THEN IF ai.raised
             THEN [Keep(S, u) EXCEPT !.calls = <<c1>>, !.gw = <<ai.call>>,
                                     !.raised = TRUE]
             ELSE [Keep(S, u) EXCEPT
                     !.notes = up.notes, !.refined = up.refined,
                     !.calls = <<c1, Call("update_note", note_id, ai.text, up.ret)>>,
                     !.gw = <<ai.call>>,
                     !.replies = <<Reply("note_refined", ai.text)>>]
        ELSE [Keep(S, u) EXCEPT !.calls = <<c1>>]

cb_note(S, u, note_id, io) ==
    LET note == get_note(S.notes, note_id, io)
        c1 == Call("get_note", note_id, None, note # NoNote)
    IN  IF note # NoNote
        THEN [Keep(S, u) EXCEPT !.calls = <<c1>>,
                                !.replies = <<Reply("note_screen", note.content)>>]
        ELSE [Keep(S, u) EXCEPT !.calls = <<c1>>,
                                !.replies = <<Reply("note_not_found", None)>>]

(* The if/elif chain of handle_callback, in source order. *)
handle_callback(S, u, data, io, out, resp) ==
    IF u \notin ALLOWED_USERS
    THEN [Keep(S, u) EXCEPT !.replies = <<Reply("denied", None)>>]
    ELSE IF Eq(data, <<"menu", "main">>)
    THEN cb_menu_main(S, u)
    ELSE IF Eq(data, <<"base", "prompt">>)
    THEN IF out = "raise"
         THEN \* PromptManager() could not load its files: nothing catches it
              [Keep(S, u) EXCEPT !.raised = TRUE]
         ELSE [Keep(S, u) EXCEPT !.replies = <<Reply("base_prompt_screen", None)>>]
    ELSE IF Eq(data, <<"edit", "base", "prompt">>)
    THEN [Keep(S, u) EXCEPT !.wfbp = TRUE,
                            !.replies = <<Reply("edit_prompt_screen", None)>>]
    ELSE IF Eq(data, <<"new", "note">>)
    THEN [Keep(S, u) EXCEPT !.state = StStr("waiting_for_note"),
                            !.replies = <<Reply("note_prompt", None)>>]
    ELSE IF Eq(data, <<"new", "idea">>)
    THEN [Keep(S, u) EXCEPT !.state = StStr("waiting_for_idea"),
                            !.replies = <<Reply("idea_prompt", None)>>]
    ELSE IF Eq(data, <<"menu", "projects">>)
    THEN [Keep(S, u) EXCEPT !.calls = <<Call("get_projects", "", None, TRUE)>>,
                            !.replies = <<Reply("projects_menu", None)>>]
    ELSE IF Eq(data, <<"new", "project">>)
    THEN [Keep(S, u) EXCEPT !.state = StStr("waiting_for_project_name"),
                            !.replies = <<Reply("project_name_prompt", None)>>]
    ELSE IF StartsWith(data, <<"project">>)
    THEN cb_project(S, u, <<data[2]>>, io)
    ELSE IF StartsWith(data, <<"new", "project", "note">>)
    THEN cb_new_project_note(S, u, <<data[4]>>, io)
    ELSE IF Eq(data, <<"refine", "message">>)
    THEN [Keep(S, u) EXCEPT
            !.state = StDict("waiting_for_refinement", None, "", NoContext),
            !.replies = <<Reply("refine_prompt", None)>>]
    ELSE IF StartsWith(data, <<"refine", "note">>)
    THEN cb_refine_note(S, u, data[3], io)
    ELSE IF StartsWith(data, <<"confirm", "refine">>)
    THEN cb_confirm_refine(S, u, data[3], io, out, resp)
    ELSE IF Eq(data, <<"cancel">>)
    THEN cb_cancel(S, u)
    ELSE IF StartsWith(data, <<"ask", "project">>)
    THEN cb_ask_project(S, u, <<data[3]>>, io)
    ELSE IF Eq(data, <<"help">>)
    THEN [Keep(S, u) EXCEPT !.replies = <<Reply("help_menu", None)>>]
    ELSE IF StartsWith(data, <<"help">>)
    THEN [Keep(S, u) EXCEPT !.replies = <<Reply("help_text", <<data[2]>>)>>]
    ELSE IF Eq(data, <<"menu", "notes">>)
    THEN [Keep(S, u) EXCEPT !.calls = <<Call("get_recent_notes", "", None, TRUE)>>,
                            !.replies = <<Reply("notes_menu", None)>>]
    ELSE IF StartsWith(data, <<"note">>)
    THEN cb_note(S, u, data[2], io)
    ELSE IF StartsWith(data, <<"chat", "project">>)
    THEN cb_ask_project(S, u, <<data[3]>>, io)
    ELSE Keep(S, u)

(* --------------------------- handle_message --------------------------- *)

handle_message_forwards_when_pending(S, u, message_text, io, out, resp) ==
    LET state == S.user_states[u]
    IN
    IF u \notin ALLOWED_USERS
    THEN [Keep(S, u) EXCEPT !.replies = <<Reply("denied", None)>>]
    ELSE IF state.kind # "absent"
    THEN IF StateEq(state, "waiting_for_note")
         THEN LET r == create_note(S.notes, message_text, None, io)
              IN  [Keep(S, u) EXCEPT
                     !.state = StNone, !.notes = r.notes,
                     !.ids = <<r.ret.id>>,
                     !.calls = <<Call("create_note", r.ret.id, message_text, TRUE)>>,
                     !.replies = <<Reply("note_saved", r.ret.content)>>]
         ELSE IF StateEq(state, "waiting_for_idea")
         THEN LET r == create_idea(S.notes, message_text, io)
              IN  [Keep(S, u) EXCEPT
                     !.state = StNone, !.notes = r.notes,
                     !.ids = <<r.ret.id>>,
                     !.calls = <<Call("create_idea", r.ret.id, message_text, TRUE)>>,
                     !.replies = <<Reply("idea_saved", r.ret.content)>>]
         ELSE IF StateEq(state, "waiting_for_project_name")
         THEN LET r == create_project(S.projects, message_text, io)
              IN  [Keep(S, u) EXCEPT
                     !.state = StNone, !.projects = r.projects,
                     !.calls = <<Call("create_project", "", message_text, TRUE),
                                 Call("get_projects", "", None, TRUE)>>,
                     !.replies = <<Reply("project_created", r.ret.title)>>]
         ELSE IF StateEq(state, "waiting_for_project_note")
         THEN \* user_states[user_id]["project_id"] on a str raises TypeError
              [Keep(S, u) EXCEPT !.raised = TRUE]
         ELSE LET ai == process_with_ai(message_text, GwStr(""), out, resp)
              IN  [Keep(S, u) EXCEPT !.gw = <<ai.call>>,
                                     !.replies = <<Reply("ai", ai.text)>>]
    ELSE LET ai == process_with_ai(message_text, GwStr(""), out, resp)
         IN  [Keep(S, u) EXCEPT
                !.gw = <<ai.call>>,
                !.replies = <<IF ai.raised
                              THEN Reply("apology", Apology(message_text))
                              ELSE Reply("ai", ai.text)>>]

handle_message(S, u, message_text, io, out, resp) ==
    LET state == S.user_states[u]
    IN
    IF u \notin ALLOWED_USERS
    THEN [Keep(S, u) EXCEPT !.replies = <<Reply("denied", None)>>]
    ELSE IF state.kind # "absent"
    THEN IF StateEq(state, "waiting_for_note")
         THEN LET r == create_note(S.notes, message_text, None, io)
              IN  [Keep(S, u) EXCEPT
                     !.state = StNone, !.notes = r.notes,
                     !.ids = <<r.ret.id>>,
                     !.calls = <<Call("create_note", r.ret.id, message_text, TRUE)>>,
                     !.replies = <<Reply("note_saved", r.ret.content)>>]
         ELSE IF StateEq(state, "waiting_for_idea")
         THEN LET r == create_idea(S.notes, message_text, io)
              IN  [Keep(S, u) EXCEPT
                     !.state = StNone, !.notes = r.notes,
                     !.ids = <<r.ret.id>>,
                     !.calls = <<Call("create_idea", r.ret.id, message_text, TRUE)>>,
                     !.replies = <<Reply("idea_saved", r.ret.content)>>]
         ELSE IF StateEq(state, "waiting_for_project_name")
         THEN LET r == create_project(S.projects, message_text, io)
              IN  [Keep(S, u) EXCEPT
                     !.state = StNone, !.projects = r.projects,
                     !.calls = <<Call("create_project", "", message_text, TRUE),
                                 Call("get_projects", "", None, TRUE)>>,
                     !.replies = <<Reply("project_created", r.ret.title)>>]
         ELSE IF StateEq(state, "waiting_for_project_note")
         THEN \* user_states[user_id]["project_id"] on a str raises TypeError
              [Keep(S, u) EXCEPT !.raised = TRUE]
         ELSE Keep(S, u)
    ELSE LET ai == process_with_ai(message_text, GwStr(""), out, resp)
         IN  [Keep(S, u) EXCEPT
                !.gw = <<ai.call>>,
                !.replies = <<IF ai.raised
                              THEN Reply("apology", Apology(message_text))
                              ELSE Reply("ai", ai.text)>>]

(* ------------------------------ commands ------------------------------ *)

start_resets_state(S, u) ==
    IF ~is_authorized(u)
    THEN [Keep(S, u) EXCEPT !.replies = <<Reply("denied", None)>>]
    ELSE [Keep(S, u) EXCEPT !.state = StNone,
                            !.replies = <<Reply("welcome", None)>>]

start(S, u) ==
    IF ~is_authorized(u)
    THEN [Keep(S, u) EXCEPT !.replies = <<Reply("denied", None)>>]
    ELSE [Keep(S, u) EXCEPT !.replies = <<Reply("welcome", None)>>]

help_command(S, u) ==
    IF u # AUTHORIZED_USER_ID
    THEN [Keep(S, u) EXCEPT !.replies = <<Reply("denied", None)>>]
    ELSE [Keep(S, u) EXCEPT !.replies = <<Reply("help_menu", None)>>]

menu_command(S, u) ==
    IF u # AUTHORIZED_USER_ID
    THEN [Keep(S, u) EXCEPT !.replies = <<Reply("denied", None)>>]
    ELSE [Keep(S, u) EXCEPT !.replies = <<Reply("main_menu", None)>>]

(* update.message.text.split()[0].lower() without its "/" *)
Commands == {"start", "menu", "help", "note", "foo"}

handle_command(S, u, command) ==
    IF u # AUTHORIZED_USER_ID
    THEN [Keep(S, u) EXCEPT !.replies = <<Reply("not_authorized", None)>>]
    ELSE IF command = "start" THEN start(S, u)
    ELSE IF command = "menu" THEN menu_command(S, u)
    ELSE IF command = "help" THEN help_command(S, u)
    ELSE [Keep(S, u) EXCEPT !.replies = <<Reply("command_not_recognized", None)>>]

(* What the handlers registered by main do with a command: the three      *)
(* CommandHandlers, and no handler for any other command (the text        *)
(* handler excludes commands, handle_command is not registered).          *)
dispatch_command(S, u, command) ==
    IF command = "start" THEN start(S, u)
    ELSE IF command = "menu" THEN menu_command(S, u)
    ELSE IF command = "help" THEN help_command(S, u)
    ELSE Keep(S, u)

(* ------------------------------ events -------------------------------- *)

NoteIds ==
    {p \o ToString(k) : p \in {"note", "projectnote", "idea"}, k \in 1..MaxNotes}

Payloads ==
    {<<"menu", "main">>, <<"base", "prompt">>, <<"edit", "base", "prompt">>,
     <<"new", "note">>, <<"new", "idea">>, <<"menu", "projects">>,
     <<"new", "project">>, <<"refine", "message">>, <<"cancel">>,
     <<"help">>, <<"help", "notes">>, <<"menu", "notes">>, <<"dummy">>}
    \cup {<<"project">> \o t : t \in Texts}
    \cup {<<"new", "project", "note">> \o t : t \in Texts}
    \cup {<<"ask", "project">> \o t : t \in Texts}
    \cup {<<"chat", "project">> \o t : t \in Texts}
    \cup {<<"note", id>> : id \in NoteIds}
    \cup {<<"refine", "note", id>> : id \in NoteIds}
    \cup {<<"confirm", "refine", id>> : id \in NoteIds}

WithinBounds(R) ==
    /\ Len(R.notes) <= MaxNotes
    /\ Len(R.projects) <= MaxProjects
    /\ Len(R.refined) <= MaxRefined

(* One event of user u handled to completion with result R. *)
Apply(u, R) ==
    /\ WithinBounds(R)
    /\ user_states' = After(Cur, u, R).user_states
    /\ user_data' = After(Cur, u, R).user_data
    /\ notes' = R.notes
    /\ projects' = R.projects
    /\ refined' = R.refined
    /\ returned' = returned \o R.ids
    /\ UNCHANGED <<faulty, input_text, stamped, result, prompt_manager,
                   in_flight, collections>>

UsesGateway(data) == StartsWith(data, <<"confirm", "refine">>)

Start == \E u \in Users : Apply(u, start(Cur, u))

HelpCommand == \E u \in Users : Apply(u, help_command(Cur, u))

MenuCommand == \E u \in Users : Apply(u, menu_command(Cur, u))

HandleCallback ==
    \E u \in Users, data \in Payloads, io \in IoOutcomes(faulty) :
      \E out \in IF UsesGateway(data) THEN GatewayOutcomes(faulty) ELSE {"ok"},
         resp \in Responses :
          Apply(u, handle_callback(Cur, u, data, io, out, resp))

HandleMessage ==
    \E u \in Users, text \in Texts, io \in IoOutcomes(faulty) :
      \E out \in GatewayOutcomes(faulty), resp \in Responses :
          Apply(u, handle_message(Cur, u, text, io, out, resp))

(* Direct calls of the NoteManager operations. *)
ApplyApi(n, p, r, ids) ==
    /\ Len(n) <= MaxNotes
    /\ Len(p) <= MaxProjects
    /\ Len(r) <= MaxRefined
    /\ notes' = n
    /\ projects' = p
    /\ refined' = r
    /\ returned' = returned \o ids
    /\ UNCHANGED <<user_states, user_data, faulty, input_text, stamped, result,
                   prompt_manager, in_flight, collections>>

CreateNote ==
    \E content \in Texts, project_id \in {None} \cup Texts,
       io \in IoOutcomes(faulty) :
      LET r == create_note(notes, content, project_id, io)
      IN  ApplyApi(r.notes, projects, refined, <<r.ret.id>>)

CreateIdea ==
    \E content \in Texts, io \in IoOutcomes(faulty) :
      LET r == create_idea(notes, content, io)
      IN  ApplyApi(r.notes, projects, refined, <<r.ret.id>>)

CreateProject ==
    \E title \in Texts, io \in IoOutcomes(faulty) :
      LET r == create_project(projects, title, io)
      IN  ApplyApi(notes, r.projects, refined, <<>>)

UpdateNote ==
    \E note_id \in NoteIds, content \in Texts \cup Responses,
       io \in IoOutcomes(faulty) :
      LET r == update_note(notes, refined, note_id, content, io)
      IN  ApplyApi(r.notes, projects, r.refined, <<>>)

(* --------------------------- specifications --------------------------- *)

(* The units that are exercised on their own, at rest. *)
Workers == {"w1", "w2"}

NoCalls == [one_at_a_time |-> TRUE, calls |-> [w \in Workers |-> NoCall]]

NoStores == in_flight = NoCalls /\ collections = NoCollections

NoUnits == prompt_manager = LoadedPromptManager(DefaultPrompt) /\ NoStores

(* NoteManager.__init__ keeps the files it finds: the store is empty or   *)
(* holds what earlier create_project / create_note calls left in it.      *)
InitialStores ==
    { [projects |-> <<>>, notes |-> <<>>],
      [projects |-> << [id |-> <<"hola">>, title |-> <<"hola">>] >>,
       notes |-> << [id |-> "projectnote1", content |-> <<"p", "1">>,
                     project_id |-> <<"hola">>, type |-> ""] >>] }

Init ==
    /\ user_states = [u \in Users |-> StAbsent]
    /\ user_data = [u \in Users |-> FALSE]
    /\ \E st \in InitialStores : notes = st.notes /\ projects = st.projects
    /\ refined = <<>>
    /\ faulty = FALSE
    /\ returned = [i \in 1..Len(notes) |-> notes[i].id]
    /\ input_text = None
    /\ stamped = <<>>
    /\ result = NoResult
    /\ NoUnits

(* The bot: events are handled one at a time, each to completion. *)
Next ==
    \/ Start
    \/ HelpCommand
    \/ MenuCommand
    \/ HandleCallback
    \/ HandleMessage

Spec == Init /\ [][Next]_vars

(* The NoteManager as a unit: any sequence of calls of its operations. *)
NextManager ==
    \/ CreateNote
    \/ CreateIdea
    \/ CreateProject
    \/ UpdateNote

SpecManager == Init /\ [][NextManager]_vars

(* The functions that read no program state, each applied to inputs drawn  *)
(* by the initial state.                                                   *)
InitIdle ==
    /\ user_states = [u \in Users |-> StAbsent]
    /\ user_data = [u \in Users |-> FALSE]
    /\ notes = <<>>
    /\ projects = <<>>
    /\ refined = <<>>
    /\ faulty = FALSE
    /\ returned = <<>>
    /\ result = NoResult

Returns(r) ==
    /\ result' = r
    /\ UNCHANGED <<user_states, user_data, notes, projects, refined, faulty,
                   returned, input_text, stamped, prompt_manager, in_flight,
                   collections>>

IsEnglish ==
    Returns([NoResult EXCEPT !.fn = "is_english", !.english = is_english(input_text)])

InitLanguage == InitIdle /\ input_text \in Messages /\ stamped = <<>> /\ NoUnits

NextLanguage == IsEnglish

SpecLanguage == InitLanguage /\ [][NextLanguage]_vars

(* The context arguments the handlers pass (lines 738 and 896). *)
GatewayContexts == {GwStr(""), GwStr(RefinePrompt)}

ProcessWithAi ==
    \E context \in GatewayContexts, out \in {"ok", "fail", "raise"},
       resp \in Responses :
      LET r == process_with_ai(input_text, context, out, resp)
      IN  Returns([NoResult EXCEPT !.fn = "process_with_ai", !.outcome = out,
                                   !.text = r.text, !.raised = r.raised])

InitGateway ==
    InitIdle /\ input_text \in Messages \cup Texts /\ stamped = <<>> /\ NoUnits

NextGateway == ProcessWithAi

SpecGateway == InitGateway /\ [][NextGateway]_vars

StampedIds == {"note1", "note2", "idea1"}

Stamps == 1..MaxStamp

Limits == 0..MaxStored

(* The files get_recent_notes may find: records with distinct ids, in any  *)
(* order, each with the stamp its create call gave it.                     *)
StoredFiles ==
    {f \in UNION {[1..n -> [id : StampedIds, created : Stamps]] : n \in 0..MaxStored} :
        \A i, j \in 1..Len(f) : i # j => f[i].id # f[j].id}

GetRecentNotes ==
    \E limit \in Limits, io \in IoOutcomes(faulty) :
      Returns([NoResult EXCEPT !.fn = "get_recent_notes", !.limit = limit,
                               !.recent = get_recent_notes(stamped, limit, io)])

InitRecent == InitIdle /\ input_text = None /\ stamped \in StoredFiles /\ NoUnits

NextRecent == GetRecentNotes

SpecRecent == InitRecent /\ [][NextRecent]_vars

(* The PromptManager as a unit: any sequence of calls on one instance. *)
PromptReturns(r, pm) ==
    /\ result' = r
    /\ prompt_manager' = pm
    /\ UNCHANGED <<user_states, user_data, notes, projects, refined, faulty,
                   returned, input_text, stamped, in_flight, collections>>

GetPrompt ==
    \E additional_context \in ExtraContexts :
      LET r == get_prompt(prompt_manager, additional_context)
      IN  PromptReturns([NoResult EXCEPT !.fn = "get_prompt",
                                         !.text = r.ret.content], r.pm)

UpdateBasePrompt ==
    \E new_content \in Texts \cup Responses, ok \in BOOLEAN :
      LET r == update_base_prompt(prompt_manager, new_content, ok)
      IN  PromptReturns([NoResult EXCEPT !.fn = "update_base_prompt",
                                         !.outcome = IF r.ret THEN "ok" ELSE "fail"],
                        r.pm)

ContextKeys == {"project"}

ContextValues == {"hola", ""}

SetContext ==
    \E key \in ContextKeys, value \in ContextValues, ok \in BOOLEAN :
      LET r == set_context(prompt_manager, key, value, ok)
      IN  PromptReturns([NoResult EXCEPT !.fn = "set_context",
                                         !.outcome = IF r.ret THEN "ok" ELSE "fail"],
                        r.pm)

ClearContext ==
    \E ok \in BOOLEAN :
      LET r == clear_context(prompt_manager, ok)
      IN  PromptReturns([NoResult EXCEPT !.fn = "clear_context",
                                         !.outcome = IF r.ret THEN "ok" ELSE "fail"],
                        r.pm)

InitPrompt ==
    /\ InitIdle
    /\ input_text = None
    /\ stamped = <<>>
    /\ \E content \in PromptContents :
         prompt_manager = LoadedPromptManager(content)
    /\ NoStores

NextPrompt ==
    \/ GetPrompt
    \/ UpdateBasePrompt
    \/ SetContext
    \/ ClearContext

SpecPrompt == InitPrompt /\ [][NextPrompt]_vars

(* Id allocation over the notes files NoteManager.__init__ may find: the   *)
(* ids the allocator wrote before, ids with gaps, and ids whose suffix is  *)
(* not a number.                                                           *)
Prefixes == {"note", "projectnote", "idea"}

StoredIds == {"note1", "note3", "notex", "note", "projectnote2", "idea1"}

StoredRecord(id) ==
    [id |-> id, content |-> <<"hola">>,
     project_id |-> IF id = "projectnote2" THEN <<"hola">> ELSE None,
     type |-> IF id = "idea1" THEN "idea" ELSE ""]

IdFiles ==
    {[i \in 1..Len(f) |-> StoredRecord(f[i])] :
        f \in {g \in UNION {[1..n -> StoredIds] : n \in 0..MaxNotes} :
                 \A i, j \in 1..Len(g) : i # j => g[i] # g[j]}}

InitIds ==
    /\ user_states = [u \in Users |-> StAbsent]
    /\ user_data = [u \in Users |-> FALSE]
    /\ notes \in IdFiles
    /\ projects = <<>>
    /\ refined = <<>>
    /\ faulty = FALSE
    /\ returned = <<>>
    /\ input_text = None
    /\ stamped = <<>>
    /\ result = NoResult
    /\ NoUnits

NextIds ==
    \/ CreateNote
    \/ CreateIdea

SpecIds == InitIds /\ [][NextIds]_vars

(* Create calls of several workers on one notes file. Each call is a load  *)
(* and, later, a save; with one_at_a_time a call starts only when no other *)
(* call is between its load and its save.                                  *)
MayStart(w) ==
    /\ in_flight.calls[w].pc = "idle"
    /\ in_flight.one_at_a_time =>
         \A v \in Workers : in_flight.calls[v].pc = "idle"

Loads(w, call) ==
    /\ MayStart(w)
    /\ Len(call.loaded) < MaxNotes
    /\ in_flight' = [in_flight EXCEPT !.calls[w] = call]
    /\ UNCHANGED <<user_states, user_data, notes, projects, refined, faulty,
                   returned, input_text, stamped, result, prompt_manager,
                   collections>>

CreateNoteLoads ==
    \E w \in Workers, content \in Texts, project_id \in {None, <<"hola">>} :
      Loads(w, create_note_load(notes, content, project_id, AllOk))

CreateIdeaLoads ==
    \E w \in Workers, content \in Texts :
      Loads(w, create_idea_load(notes, content, AllOk))

CreateSaves ==
    \E w \in Workers :
      /\ in_flight.calls[w].pc = "loaded"
      /\ notes' = create_save(notes, in_flight.calls[w], AllOk)
      /\ returned' = Append(returned, in_flight.calls[w].note.id)
      /\ in_flight' = [in_flight EXCEPT !.calls[w] = NoCall]
      /\ UNCHANGED <<user_states, user_data, projects, refined, faulty,
                     input_text, stamped, result, prompt_manager, collections>>

InitConcurrent ==
    /\ InitIdle
    /\ input_text = None
    /\ stamped = <<>>
    /\ prompt_manager = LoadedPromptManager(DefaultPrompt)
    /\ \E b \in BOOLEAN : in_flight = [NoCalls EXCEPT !.one_at_a_time = b]
    /\ collections = NoCollections

NextConcurrent ==
    \/ CreateNoteLoads
    \/ CreateIdeaLoads
    \/ CreateSaves

SpecConcurrent == InitConcurrent /\ [][NextConcurrent]_vars

(* The random-token NoteManager as a unit: any sequence of its creates and *)
(* delete_note calls, with any token the generator returns.                *)
TokenReturns(r) ==
    /\ Len(r.c.notes) <= MaxNotes
    /\ Len(r.c.journal) <= MaxNotes
    /\ Len(r.c.ideas) <= MaxNotes
    /\ Len(r.c.projects) <= MaxProjects
    /\ collections' = r.c
    /\ UNCHANGED <<user_states, user_data, notes, projects, refined, faulty,
                   returned, input_text, stamped, result, prompt_manager,
                   in_flight>>

TokenCreateNote ==
    \E token \in Tokens, content \in Texts :
      TokenReturns(token_create_note(collections, token, content, None))

TokenCreateJournalEntry ==
    \E token \in Tokens, content \in Texts :
      TokenReturns(token_create_journal_entry(collections, token, content))

TokenCreateIdea ==
    \E token \in Tokens, content \in Texts :
      TokenReturns(token_create_idea(collections, token, content))

TokenCreateProject ==
    \E token \in Tokens, title \in Texts :
      TokenReturns(token_create_project(collections, token, title))

TokenDeleteNote ==
    \E note_id \in Tokens :
      TokenReturns(token_delete_note(collections, note_id))

InitTokens ==
    /\ InitIdle
    /\ input_text = None
    /\ stamped = <<>>
    /\ NoUnits

NextTokens ==
    \/ TokenCreateNote
    \/ TokenCreateJournalEntry
    \/ TokenCreateIdea
    \/ TokenCreateProject
    \/ TokenDeleteNote

SpecTokens == InitTokens /\ [][NextTokens]_vars

(* ------------------------------ claims -------------------------------- *)

IsIdle(st) == st.kind \in {"absent", "none"}

NoteContents == Texts \cup Responses

(* C1: whatever the authorized user's pending state, the menu selection    *)
(* new_note followed by a free-text message t appends exactly one Note        *)
(* with content t and project_id None to the notes collection, changes no  *)
(* other collection, and leaves the user Idle.                             *)
C1_NewNoteThenTextCreatesNote ==
    \A t \in Texts, io \in IoOutcomes(faulty),
       out \in GatewayOutcomes(faulty), resp \in Responses :
      LET u  == AUTHORIZED_USER_ID
          S1 == After(Cur, u, handle_callback(Cur, u, <<"new", "note">>, io, out, resp))
          R  == handle_message(S1, u, t, io, out, resp)
      IN  /\ Len(R.notes) = Len(notes) + 1
          /\ SubSeq(R.notes, 1, Len(notes)) = notes
          /\ R.notes[Len(R.notes)].content = t
          /\ R.notes[Len(R.notes)].project_id = None
          /\ R.notes[Len(R.notes)].type = ""
          /\ R.projects = projects
          /\ R.refined = refined
          /\ IsIdle(R.state)

(* A note typed after new_note is stored and the user is Idle again. *)
C1_Witness ==
    /\ user_states[AUTHORIZED_USER_ID] = StNone
    /\ \E i \in 1..Len(notes) :
         /\ notes[i].id = "note1"
         /\ notes[i].content = <<"hola">>
         /\ notes[i].project_id = None

(* C2: for every existing project pid, new_project_note_<pid> followed by  *)
(* a free-text message t creates a Note with content t and project_id pid     *)
(* and resets the user to Idle.                                            *)
C2_ProjectNoteCreated ==
    \A i \in 1..Len(projects), t \in Texts, io \in IoOutcomes(faulty),
       out \in GatewayOutcomes(faulty), resp \in Responses :
      LET u   == AUTHORIZED_USER_ID
          pid == projects[i].id
          S1  == After(Cur, u, handle_callback(Cur, u, <<"new", "project", "note">> \o pid,
                                               io, out, resp))
          R   == handle_message(S1, u, t, io, out, resp)
      IN  /\ Len(R.notes) = Len(notes) + 1
          /\ R.notes[Len(R.notes)].content = t
          /\ R.notes[Len(R.notes)].project_id = pid
          /\ IsIdle(R.state)

(* C3: whenever the authorized user is Idle (state never set, or reset to  *)
(* None), a free-text message is forwarded verbatim to the gateway with no    *)
(* extra context and exactly one reply, generated text or apology, is sent.*)
C3_IdleTextForwarded ==
    IsIdle(user_states[AUTHORIZED_USER_ID]) =>
      \A t \in Texts, io \in IoOutcomes(faulty),
         out \in GatewayOutcomes(faulty), resp \in Responses :
        LET R == handle_message(Cur, AUTHORIZED_USER_ID, t, io, out, resp)
        IN  /\ Len(R.gw) = 1
            /\ R.gw[1].message = t
            /\ R.gw[1].context = GwStr("")
            /\ Len(R.replies) = 1
            /\ R.replies[1].tag \in {"ai", "apology"}

(* The result of a rejected event: nothing changed, nothing called. *)
Denied(S, u, R) ==
    /\ R.state = S.user_states[u]
    /\ R.wfbp = S.user_data[u]
    /\ R.notes = S.notes
    /\ R.projects = S.projects
    /\ R.refined = S.refined
    /\ R.calls = <<>>
    /\ R.gw = <<>>
    /\ R.ids = <<>>
    /\ R.replies = <<Reply("denied", None)>>

(* C4: a command, menu callback or free-text message from a user other        *)
(* than the authorized one leaves the user-state map unchanged (so that    *)
(* user never gets an entry), calls no NoteManager operation and no        *)
(* gateway, and only yields the denial reply.                              *)
C4_UnauthorizedRejected ==
    \A u \in Users \ {AUTHORIZED_USER_ID} :
      /\ user_states[u] = StAbsent
      /\ Denied(Cur, u, start(Cur, u))
      /\ Denied(Cur, u, help_command(Cur, u))
      /\ Denied(Cur, u, menu_command(Cur, u))
      /\ \A io \in IoOutcomes(faulty), out \in GatewayOutcomes(faulty),
            resp \in Responses :
           /\ \A data \in Payloads :
                Denied(Cur, u, handle_callback(Cur, u, data, io, out, resp))
           /\ \A t \in Texts :
                Denied(Cur, u, handle_message(Cur, u, t, io, out, resp))

(* The authorized user has a pending action and notes exist, and the other *)
(* user has no entry in the state map.                                     *)
C4_Witness ==
    /\ user_states[AUTHORIZED_USER_ID].kind = "dict"
    /\ Len(notes) = 2
    /\ \E u \in Users \ {AUTHORIZED_USER_ID} : user_states[u] = StAbsent

(* C5: from every reachable pending state of the authorized user, cancel   *)
(* and menu_main each reset the user's state to Idle and leave every       *)
(* persisted collection unchanged.                                         *)
C5_CancelAndMenuMainReset ==
    \A data \in {<<"cancel">>, <<"menu", "main">>}, io \in IoOutcomes(faulty),
       out \in GatewayOutcomes(faulty), resp \in Responses :
      LET R == handle_callback(Cur, AUTHORIZED_USER_ID, data, io, out, resp)
      IN  /\ R.state = StNone
          /\ IsIdle(R.state)
          /\ R.notes = notes
          /\ R.projects = projects
          /\ R.refined = refined

(* The user's state is None while nothing was ever created: only cancel or *)
(* menu_main can have reset it.                                            *)
C5_Witness ==
    /\ user_states[AUTHORIZED_USER_ID] = StNone
    /\ refined = <<>>
    /\ \E st \in InitialStores : notes = st.notes /\ projects = st.projects

(* C6: over all sequences of create_note (with or without project_id),     *)
(* create_idea and update_note calls the returned ids are pairwise         *)
(* distinct and no two records of the notes collection share an id.        *)
C6_NoteIdsDistinct ==
    /\ \A i, j \in 1..Len(notes) : i # j => notes[i].id # notes[j].id
    /\ \A i, j \in 1..Len(returned) : i # j => returned[i] # returned[j]

(* Two records of the same id prefix were created, with an update between. *)
C6_Witness ==
    /\ refined # <<>>
    /\ \E i, j \in 1..Len(notes) :
         /\ i # j
         /\ notes[i].type = notes[j].type
         /\ Truthy(notes[i].project_id) = Truthy(notes[j].project_id)
    /\ Len(returned) >= 2

(* C7: update_note(id, new) for an existing id sets the Note's content to  *)
(* new and appends one RefinedNote whose original_content is the content   *)
(* before the call and whose refined_content is new; a second update_note  *)
(* on the same id appends a second RefinedNote, whose original_content is  *)
(* the first new content, and leaves the first RefinedNote as it was.      *)
C7_UpdateNoteRecordsHistory ==
    \A i \in 1..Len(notes), new \in NoteContents, new2 \in NoteContents,
       io \in IoOutcomes(faulty) :
      LET id == notes[i].id
          r1 == update_note(notes, refined, id, new, io)
          r2 == update_note(r1.notes, r1.refined, id, new2, io)
          n  == Len(refined)
      IN  (\A j \in 1..(i - 1) : notes[j].id # id) =>
            /\ r1.ret
            /\ Len(r1.notes) = Len(notes)
            /\ r1.notes[i].content = new
            /\ \A j \in 1..Len(notes) : j # i => r1.notes[j] = notes[j]
            /\ Len(r1.refined) = n + 1
            /\ SubSeq(r1.refined, 1, n) = refined
            /\ r1.refined[n + 1].id = id
            /\ r1.refined[n + 1].original_content = notes[i].content
            /\ r1.refined[n + 1].refined_content = new
            /\ r2.ret
            /\ r2.notes[i].content = new2
            /\ Len(r2.refined) = n + 2
            /\ SubSeq(r2.refined, 1, n + 1) = r1.refined
            /\ r2.refined[n + 2].id = id
            /\ r2.refined[n + 2].original_content = new
            /\ r2.refined[n + 2].refined_content = new2

(* A note was updated twice: two chained RefinedNotes and the last content. *)
C7_Witness ==
    \E a, b \in 1..Len(refined), i \in 1..Len(notes) :
      /\ a < b
      /\ refined[a].id = notes[i].id
      /\ refined[b].id = notes[i].id
      /\ refined[a].original_content # refined[a].refined_content
      /\ refined[b].original_content = refined[a].refined_content
      /\ refined[b].refined_content # refined[b].original_content
      /\ notes[i].content = refined[b].refined_content

(* C8: update_note(id, new) for an id that is not in the notes collection  *)
(* returns failure, appends no RefinedNote and writes neither file.        *)
C8_UpdateMissingNoteFails ==
    \A id \in NoteIds, new \in NoteContents, io \in IoOutcomes(faulty) :
      LET r == update_note(notes, refined, id, new, io)
      IN  (\A i \in 1..Len(notes) : notes[i].id # id) =>
            /\ ~r.ret
            /\ r.refined = refined
            /\ r.notes = notes
            /\ r.wrote = <<>>

(* Notes and refinements exist, and some id is not in the collection. *)
C8_Witness ==
    /\ notes # <<>>
    /\ refined # <<>>
    /\ \E id \in NoteIds : \A i \in 1..Len(notes) : notes[i].id # id

C10_ProjectChatForwards ==
    (/\ user_states[AUTHORIZED_USER_ID].kind = "dict"
     /\ user_states[AUTHORIZED_USER_ID].state = "project_chat") =>
      \A t \in Texts, io \in IoOutcomes(faulty),
         out \in GatewayOutcomes(faulty), resp \in Responses :
        LET R == handle_message(Cur, AUTHORIZED_USER_ID, t, io, out, resp)
        IN  /\ Len(R.gw) = 1
            /\ R.gw[1].message = t
            /\ R.gw[1].context = GwProject(user_states[AUTHORIZED_USER_ID].context)
            /\ Len(R.replies) = 1
            /\ R.state = user_states[AUTHORIZED_USER_ID]

(* interface.create_cancel_menu(): the payloads of its buttons *)
create_cancel_menu == {<<"cancel">>}

(* The payloads of the buttons that the screen rendered for the menu       *)
(* selection data offers to leave the prompt (its "Cancelar" / "Volver"    *)
(* buttons); empty for a selection that renders no prompt screen.          *)
leave_buttons(data) ==
    IF data \in {<<"new", "note">>, <<"new", "idea">>, <<"new", "project">>}
    THEN create_cancel_menu
    ELSE IF StartsWith(data, <<"new", "project", "note">>)
    THEN {<<"project", data[4]>>}
    ELSE IF Eq(data, <<"refine", "message">>)
    THEN {<<"menu", "main">>}
    ELSE IF StartsWith(data, <<"refine", "note">>)
    THEN {<<"note", data[3]>>}
    ELSE IF StartsWith(data, <<"ask", "project">>)
    THEN {<<"project", data[3]>>}
    ELSE {}

IsPending(st) == st.kind \in {"str", "dict"}

(* The screens that ask for input or keep a conversation mode open. *)
PromptScreens ==
    {"note_prompt", "idea_prompt", "project_name_prompt", "project_note_prompt",
     "refine_prompt", "refine_confirm", "project_chat_ready"}

(* C11: whenever a menu selection has put the authorized user into a       *)
(* pending state, every button its screen offers to leave the prompt       *)
(* (cancel, menu_main, project_<pid>, note_<id>) resets the user to Idle.  *)
C11_LeaveButtonsReset ==
    \A data \in Payloads, io \in IoOutcomes(faulty), resp \in Responses :
      LET u  == AUTHORIZED_USER_ID
          R1 == handle_callback(Cur, u, data, io, "ok", resp)
          S1 == After(Cur, u, R1)
      IN  (/\ IsPending(R1.state)
           /\ R1.replies # <<>>
           /\ R1.replies[1].tag \in PromptScreens) =>
            \A b \in leave_buttons(data) :
              IsIdle(handle_callback(S1, u, b, io, "ok", resp).state)

(* C12: in state AwaitingRefinement a free-text message calls the gateway     *)
(* with the fixed refine instruction and resets the user to Idle; with a   *)
(* note id attached the result is persisted through update_note on that    *)
(* note, without one no collection is written.                             *)
C12_RefinementTextRefined ==
    LET u  == AUTHORIZED_USER_ID
        st == user_states[u]
    IN  (st.kind = "dict" /\ st.state = "waiting_for_refinement") =>
          \A t \in Texts, io \in IoOutcomes(faulty), resp \in Responses :
            LET R == handle_message(Cur, u, t, io, "ok", resp)
            IN  /\ Len(R.gw) = 1
                /\ R.gw[1].context = GwStr(RefinePrompt)
                /\ IsIdle(R.state)
                /\ IF st.note_id # ""
                   THEN \E i \in 1..Len(R.calls) :
                          /\ R.calls[i].fn = "update_note"
                          /\ R.calls[i].id = st.note_id
                   ELSE /\ R.notes = notes
                        /\ R.projects = projects
                        /\ R.refined = refined

(* Every value user_states[user_id] can hold for the ids of the model. *)
UserStates ==
    {StAbsent, StNone}
    \cup {StStr(n) : n \in {"waiting_for_note", "waiting_for_idea",
                            "waiting_for_project_name"}}
    \cup {StDict("waiting_for_project_note", t, "", NoContext) : t \in Texts}
    \cup {StDict("waiting_for_refinement", None, id, NoContext) :
            id \in NoteIds \cup {""}}
    \cup {StDict("project_chat", <<"hola">>, "", NoContext)}

GatewayFailures == {"fail", "raise"}

(* C13: for every stored note id, confirm_refine_<id> calls the gateway    *)
(* once with the note's content and the fixed refine instruction and, when *)
(* the gateway returns, stores the returned text through update_note; the  *)
(* resulting notes and refined collections are the same for every pending  *)
(* state the user may have been in.                                        *)
C13_ConfirmRefineStateIndependent ==
    \A i \in 1..Len(notes), io \in IoOutcomes(faulty), resp \in Responses,
       out \in {"ok", "fail", "raise"} :
      LET u    == AUTHORIZED_USER_ID
          id   == notes[i].id
          data == <<"confirm", "refine", id>>
          R    == handle_callback(Cur, u, data, io, out, resp)
          ai   == process_with_ai(notes[i].content, GwStr(RefinePrompt), out, resp)
          up   == update_note(notes, refined, id, ai.text, io)
      IN  (\A j \in 1..(i - 1) : notes[j].id # id) =>
            /\ Len(R.gw) = 1
            /\ R.gw[1].message = notes[i].content
            /\ R.gw[1].context = GwStr(RefinePrompt)
            /\ out # "raise" =>
                 /\ R.notes = up.notes
                 /\ R.refined = up.refined
                 /\ Len(R.refined) = Len(refined) + 1
                 /\ R.notes[i].content = ai.text
                 /\ R.calls[Len(R.calls)] = Call("update_note", id, ai.text, TRUE)
            /\ \A st \in UserStates :
                 LET S2 == [Cur EXCEPT !.user_states[u] = st]
                     R2 == handle_callback(S2, u, data, io, out, resp)
                 IN  /\ R2.notes = R.notes
                     /\ R2.refined = R.refined
                     /\ R2.gw = R.gw

(* A note was refined through confirm_refine while the user's pending      *)
(* state was not the refinement of that note.                              *)
C13_Witness ==
    \E k \in 1..Len(refined) :
      /\ refined[k].refined_content \in Responses
      /\ user_states[AUTHORIZED_USER_ID].note_id # refined[k].id
      /\ \E i \in 1..Len(notes) :
           notes[i].id = refined[k].id /\ notes[i].content = refined[k].refined_content

(* C15: when the gateway call made while handling an event fails, the      *)
(* user's pending state after the event is the pending state before it.    *)
C15_GatewayFailureKeepsState ==
    \A u \in Users, io \in IoOutcomes(faulty), resp \in Responses,
       out \in GatewayFailures :
      /\ \A t \in Texts :
           LET R == handle_message(Cur, u, t, io, out, resp)
           IN  R.gw # <<>> => R.state = user_states[u]
      /\ \A data \in Payloads :
           LET R == handle_callback(Cur, u, data, io, out, resp)
           IN  R.gw # <<>> => R.state = user_states[u]

(* A gateway failure happened during confirm_refine (its apology is in the *)
(* stores) and the user's pending state is still there.                    *)
C15_Witness ==
    /\ IsPending(user_states[AUTHORIZED_USER_ID])
    /\ \E k \in 1..Len(refined) : refined[k].refined_content \in {ApologyEn, ApologyEs}

(* The menu payloads that carry a project id / a note id. *)
ProjectPayloads(t) ==
    {<<"project">> \o t, <<"new", "project", "note">> \o t,
     <<"ask", "project">> \o t, <<"chat", "project">> \o t}

NotePayloads(id) ==
    {<<"note", id>>, <<"refine", "note", id>>, <<"confirm", "refine", id>>}

(* The payloads whose id is in neither form (as sent, as parsed) stored. *)
MissingRefs ==
    UNION {ProjectPayloads(t) : t \in {t \in Texts :
              \A i \in 1..Len(projects) :
                  projects[i].id # t /\ projects[i].id # <<t[1]>>}}
    \cup UNION {NotePayloads(id) : id \in {id \in NoteIds :
              \A i \in 1..Len(notes) : notes[i].id # id}}

(* C16: a menu callback that references a project or note id absent from   *)
(* its collection leaves the user's pending state and the three            *)
(* collections unchanged and does not raise.                               *)
C16_MissingIdChangesNothing ==
    \A data \in MissingRefs, io \in IoOutcomes(faulty), resp \in Responses,
       out \in {"ok", "fail", "raise"} :
      LET R == handle_callback(Cur, AUTHORIZED_USER_ID, data, io, out, resp)
      IN  /\ R.state = user_states[AUTHORIZED_USER_ID]
          /\ R.notes = notes
          /\ R.projects = projects
          /\ R.refined = refined
          /\ R.gw = <<>>
          /\ ~R.raised

(* The user has a pending action, the stores are not empty, and both a     *)
(* project id and a note id are missing from them.                         *)
C16_Witness ==
    /\ IsPending(user_states[AUTHORIZED_USER_ID])
    /\ notes # <<>>
    /\ projects # <<>>
    /\ \E t \in Texts : ProjectPayloads(t) \subseteq MissingRefs
    /\ \E id \in NoteIds : NotePayloads(id) \subseteq MissingRefs

(* C17: every menu callback that references a project or note id absent    *)
(* from its collection renders a "not found" screen.                       *)
C17_MissingIdRendersNotFound ==
    \A data \in MissingRefs, io \in IoOutcomes(faulty), resp \in Responses :
      LET R == handle_callback(Cur, AUTHORIZED_USER_ID, data, io, "ok", resp)
      IN  /\ Len(R.replies) = 1
          /\ R.replies[1].tag \in {"project_not_found", "note_not_found"}

(* C19: create_project with a title already stored returns the stored      *)
(* record and leaves the projects collection as it was, and no two stored  *)
(* projects share an id or a title.                                        *)
C19_CreateProjectIdempotent ==
    /\ \A i \in 1..Len(projects), io \in IoOutcomes(faulty) :
         LET r == create_project(projects, projects[i].title, io)
         IN  /\ r.ret = projects[i]
             /\ r.projects = projects
    /\ \A i, j \in 1..Len(projects) :
         i # j => /\ projects[i].id # projects[j].id
                  /\ projects[i].title # projects[j].title

(* Both titles of the model are stored, each once. *)
C19_Witness ==
    /\ Len(projects) = 2
    /\ \A t \in Texts : \E i \in 1..Len(projects) : projects[i].title = t

(* C14: process_with_ai never raises to its caller: whenever building or   *)
(* sending the request or parsing the answer fails it returns the apology  *)
(* in the language is_english detects for the message (Spanish for "hola").   *)
C14_GatewayNeverRaises ==
    (result.fn = "process_with_ai" /\ result.outcome # "ok") =>
      /\ ~result.raised
      /\ result.text = IF is_english(input_text) THEN ApologyEn ELSE ApologyEs
      /\ input_text = <<"hola">> => result.text = ApologyEs

(* Position of the record with this id in a file. *)
StoredAt(f, id) == CHOOSE i \in 1..Len(f) : f[i].id = id

(* C18: get_recent_notes(limit) returns at most limit records of the file, *)
(* by created stamp descending, records with equal stamps in the order     *)
(* they have in the file.                                                  *)
C18_RecentNotesOrdered ==
    result.fn = "get_recent_notes" =>
      LET r == result.recent
      IN  /\ Len(r) <= result.limit
          /\ \A i \in 1..Len(r) : \E k \in 1..Len(stamped) : stamped[k] = r[i]
          /\ \A i, j \in 1..Len(r) :
               i < j =>
                 /\ r[i].created >= r[j].created
                 /\ r[i].created = r[j].created =>
                      StoredAt(stamped, r[i].id) < StoredAt(stamped, r[j].id)

(* A listing cut off by the limit: the two oldest-stored records share the *)
(* newest stamp and are returned, the third is left out.                   *)
C18_Witness ==
    /\ result.fn = "get_recent_notes"
    /\ result.limit = 2
    /\ Len(stamped) = 3
    /\ stamped[1].created = stamped[2].created
    /\ stamped[3].created > stamped[1].created
    /\ Len(result.recent) = 2
    /\ result.recent[2] = stamped[1]

(* C20: is_english answers English exactly when more of the lower-cased    *)
(* blank-separated words of the message are English words than Spanish        *)
(* words, and Spanish otherwise, ties and no recognised word included.     *)
C20_EnglishOnStrictMajority ==
    result.fn = "is_english" =>
      \A ws \in WordSeqs :
        input_text = <<JoinSpace(ws)>> =>
          LET en == {k \in 1..Len(ws) : Lower(ws[k]) \in english_words}
              es == {k \in 1..Len(ws) : Lower(ws[k]) \in spanish_words}
          IN  result.english = (Cardinality(en) > Cardinality(es))

(* A message with as many English as Spanish words, one of them typed in      *)
(* upper case, was classified Spanish.                                     *)
C20_Witness ==
    /\ result.fn = "is_english"
    /\ input_text = <<"The el">>
    /\ ~result.english

(* interface.create_project_buttons(project_id): the payloads of its buttons *)
create_project_buttons(project_id) ==
    {<<"new", "project", "note">> \o project_id, <<"ask", "project">> \o project_id,
     <<"menu", "projects">>}

AwaitingInput(st) ==
    \/ st.kind = "str"
    \/ st.kind = "dict" /\ st.state = "waiting_for_project_note"

(* C22: a free-text message of a user in AwaitingNote, AwaitingIdea,       *)
(* AwaitingProjectName or AwaitingProjectNote never reaches the gateway,   *)
(* and one of a user who is Idle or in ProjectChat never creates or        *)
(* changes a note, idea or project.                                        *)
C22_TextInterpretedByState ==
    \A t \in Texts, io \in IoOutcomes(faulty), resp \in Responses,
       out \in {"ok", "fail", "raise"} :
      LET st == user_states[AUTHORIZED_USER_ID]
          R  == handle_message(Cur, AUTHORIZED_USER_ID, t, io, out, resp)
      IN  /\ AwaitingInput(st) => R.gw = <<>>
          /\ (IsIdle(st) \/ (st.kind = "dict" /\ st.state = "project_chat")) =>
                /\ R.notes = notes
                /\ R.projects = projects
                /\ R.refined = refined
                /\ R.calls = <<>>

(* The user is in ProjectChat and a project note was stored before. *)
C22_Witness ==
    /\ user_states[AUTHORIZED_USER_ID].kind = "dict"
    /\ user_states[AUTHORIZED_USER_ID].state = "project_chat"
    /\ Len(notes) = 2

(* C23: no user ever has both a pending state in user_states and the       *)
(* waiting_for_base_prompt flag set.                                       *)
C23_AtMostOnePending ==
    \A u \in Users : ~(IsPending(user_states[u]) /\ user_data[u])

AllFaults ==
    [nr : BOOLEAN, nw : BOOLEAN, pr : BOOLEAN, pw : BOOLEAN,
     rr : BOOLEAN, rw : BOOLEAN]

(* C24: whatever file access fails while an event is handled, the failure  *)
(* is absorbed at the store boundary and the handler does not raise.       *)
C24_PersistenceFailureNeverRaises ==
    \A io \in AllFaults, out \in {"ok", "fail", "raise"}, resp \in Responses :
      /\ \A data \in Payloads :
           ~handle_callback(Cur, AUTHORIZED_USER_ID, data, io, out, resp).raised
      /\ \A t \in Texts :
           ~handle_message(Cur, AUTHORIZED_USER_ID, t, io, out, resp).raised

(* C25: every command of the authorized user other than start, menu and    *)
(* help is answered with the fixed "command not recognized" message by the *)
(* handlers the application registers.                                     *)
C25_UnknownCommandRejected ==
    \A command \in Commands \ {"start", "menu", "help"} :
      dispatch_command(Cur, AUTHORIZED_USER_ID, command).replies =
        <<Reply("command_not_recognized", None)>>

(* C27: when the waiting_for_base_prompt flag is set, the next free-text   *)
(* message replaces the base prompt through update_base_prompt and clears  *)
(* the flag; it is not stored as a note, idea or project and not sent to   *)
(* the gateway.                                                            *)
C27_BasePromptTextReplacesPrompt ==
    user_data[AUTHORIZED_USER_ID] =>
      \A t \in Texts, io \in IoOutcomes(faulty), resp \in Responses :
        LET R == handle_message(Cur, AUTHORIZED_USER_ID, t, io, "ok", resp)
        IN  /\ \E i \in 1..Len(R.calls) :
                 R.calls[i].fn = "update_base_prompt" /\ R.calls[i].text = t
            /\ ~R.wfbp
            /\ R.gw = <<>>
            /\ R.notes = notes
            /\ R.projects = projects

(* C28: get_prompt returns a copy: after get_prompt calls with any extra   *)
(* contexts the manager's base prompt and the persisted base prompt are    *)
(* what they were, and a later get_prompt without extra context returns    *)
(* the original content.                                                   *)
C28_GetPromptLeavesBasePrompt ==
    \A c1 \in ExtraContexts, c2 \in ExtraContexts :
      LET r1 == get_prompt(prompt_manager, c1)
          r2 == get_prompt(r1.pm, c2)
          r3 == get_prompt(r2.pm, <<>>)
          n  == Len(prompt_manager.base_prompt.content)
      IN  /\ r1.pm = prompt_manager
          /\ r2.pm = prompt_manager
          /\ r3.pm = prompt_manager
          /\ r3.ret = prompt_manager.base_prompt
          /\ SubSeq(r1.ret.content, 1, n) = prompt_manager.base_prompt.content
          /\ SubSeq(r2.ret.content, 1, n) = prompt_manager.base_prompt.content

(* get_prompt returned a prompt with a context block appended, from a      *)
(* manager whose base prompt was replaced before.                          *)
C28_Witness ==
    /\ result.fn = "get_prompt"
    /\ Len(result.text) > Len(prompt_manager.base_prompt.content)
    /\ prompt_manager.base_prompt.content \in Texts

(* The record create_note / create_idea makes for an id prefix. *)
Created(prefix, file, content) ==
    IF prefix = "idea"
    THEN create_idea(file, content, AllOk)
    ELSE create_note(file, content,
                     IF prefix = "projectnote" THEN <<"hola">> ELSE None, AllOk)

Stored(file, id) == \E i \in 1..Len(file) : file[i].id = id

(* C29: the id create_note / create_idea allocates is the prefix followed  *)
(* by k, where no stored id is the prefix followed by a number >= k and    *)
(* either k = 1 or the prefix followed by k - 1 is stored; stored ids      *)
(* whose suffix is not a number do not change it; and the allocation       *)
(* leaves the next id of every other prefix as it was.                     *)
C29_NextIdIsMaxPlusOne ==
    \A prefix \in Prefixes, content \in Texts :
      LET r == Created(prefix, notes, content)
          numeric == SelectSeq(notes, LAMBDA n :
                        \E q \in Prefixes, j \in IdNums : n.id = q \o ToString(j))
      IN  /\ \E k \in 1..(MaxNotes + 3) :
                /\ r.ret.id = prefix \o ToString(k)
                /\ \A j \in IdNums : j >= k => ~Stored(notes, prefix \o ToString(j))
                /\ k = 1 \/ Stored(notes, prefix \o ToString(k - 1))
          /\ Created(prefix, numeric, content).ret.id = r.ret.id
          /\ r.notes = Append(notes, r.ret)
          /\ \A q \in Prefixes \ {prefix} :
                _get_next_id(q, r.notes) = _get_next_id(q, notes)

(* A file holding note3 and neither note1 nor note2, to which a create     *)
(* added note4.                                                            *)
C29_Witness ==
    /\ Len(notes) = 2
    /\ notes[1].id = "note3"
    /\ returned = <<"note4">>

(* A file whose only "note" id has a non-numeric suffix got note1. *)
C29_WitnessNonNumeric ==
    /\ Len(notes) = 2
    /\ notes[1].id \in {"notex", "note"}
    /\ returned = <<"note1">>

Quiescent == \A w \in Workers : in_flight.calls[w].pc = "idle"

(* C26: when create calls are handled one at a time to completion, every   *)
(* created record is in the collection afterwards and no two created       *)
(* records have the same id; the load and the save of one call together    *)
(* do what the whole call does. (That two calls in flight at once reach a  *)
(* state with a lost record and a repeated id is C26_Witness.)             *)
C26_OneAtATimeLosesNothing ==
    /\ in_flight.one_at_a_time =>
         /\ \A i \in 1..Len(returned) : Stored(notes, returned[i])
         /\ \A i, j \in 1..Len(returned) : i # j => returned[i] # returned[j]
         /\ Len(notes) = Len(returned)
         /\ \A w \in Workers :
              in_flight.calls[w].pc = "loaded" =>
                create_save(notes, in_flight.calls[w], AllOk)
                  = Append(notes, in_flight.calls[w].note)
    /\ \A content \in Texts, project_id \in {None, <<"hola">>} :
         /\ create_save(notes, create_note_load(notes, content, project_id, AllOk),
                        AllOk)
              = create_note(notes, content, project_id, AllOk).notes
         /\ create_save(notes, create_idea_load(notes, content, AllOk), AllOk)
              = create_idea(notes, content, AllOk).notes

(* Two create calls were in flight at once and both have returned: the     *)
(* collection holds one record, the other is lost, and both calls returned *)
(* the same id.                                                            *)
C26_Witness ==
    /\ ~in_flight.one_at_a_time
    /\ Quiescent
    /\ Len(returned) = 2
    /\ returned[1] = returned[2]
    /\ Len(notes) = 1

(* C30: no collection of the random-token NoteManager ever holds two       *)
(* records with the same id.                                               *)
C30_TokenIdsDistinct ==
    \A k \in {"notes", "journal", "ideas", "projects"} :
      \A i, j \in 1..Len(collections[k]) :
        i # j => collections[k][i].id # collections[k][j].id

(* Loads of projects.json and notes.json failing or not. *)
LoadFaults == {[AllOk EXCEPT !.pr = a, !.nr = b] : a \in BOOLEAN, b \in BOOLEAN}

(* C31: ask_project_<pid> and chat_project_<pid> change the pending state  *)
(* only to ProjectChat(pid, ctx) of a stored project pid with at least one *)
(* note, ctx holding every note of the project in stored order; when the   *)
(* project is not stored or has no notes the pending state stays as it is. *)
C31_ProjectChatOnlyWithNotes ==
    \A t \in Texts, io \in LoadFaults, resp \in Responses :
      \A data \in {<<"ask", "project">> \o t, <<"chat", "project">> \o t} :
        LET st == user_states[AUTHORIZED_USER_ID]
            R  == handle_callback(Cur, AUTHORIZED_USER_ID, data, io, "ok", resp)
            of_project == SelectSeq(notes, LAMBDA n : n.project_id = t)
            exists == \E i \in 1..Len(projects) : projects[i].id = t
        IN  /\ R.state # st =>
                  /\ exists
                  /\ of_project # <<>>
                  /\ R.state.kind = "dict"
                  /\ R.state.state = "project_chat"
                  /\ R.state.project_id = t
                  /\ Len(R.state.context.notes) = Len(of_project)
                  /\ \A i \in 1..Len(of_project) :
                        /\ R.state.context.notes[i].id = of_project[i].id
                        /\ R.state.context.notes[i].content = of_project[i].content
            /\ (~exists \/ of_project = <<>>) => R.state = st
            /\ R.notes = notes /\ R.projects = projects /\ R.refined = refined

(* The user is in ProjectChat with a context of the one note of the        *)
(* project, taken from a collection that also holds a note of no project.  *)
C31_Witness ==
    /\ user_states[AUTHORIZED_USER_ID].kind = "dict"
    /\ user_states[AUTHORIZED_USER_ID].state = "project_chat"
    /\ Len(user_states[AUTHORIZED_USER_ID].context.notes) = 1
    /\ Len(notes) = 2
    /\ notes[1].project_id = user_states[AUTHORIZED_USER_ID].project_id
    /\ notes[2].project_id = None

(* C32: when the gateway call of confirm_refine_<id> fails, the note keeps *)
(* its content and no RefinedNote is appended.                             *)
C32_GatewayFailureNotPersisted ==
    \A i \in 1..Len(notes), resp \in Responses :
      LET R == handle_callback(Cur, AUTHORIZED_USER_ID,
                               <<"confirm", "refine", notes[i].id>>,
                               AllOk, "fail", resp)
      IN  /\ R.notes = notes
          /\ R.refined = refined

(* C33: whenever handle_message replies that a note, an idea or a project  *)
(* was saved, a record with the reported id and the sent content is in the *)
(* persisted collection, whatever file access failed.                      *)
C33_SavedReplyMeansPersisted ==
    \A t \in Texts, io \in AllFaults, resp \in Responses :
      LET R == handle_message(Cur, AUTHORIZED_USER_ID, t, io, "ok", resp)
      IN  \A k \in 1..Len(R.replies) :
            /\ R.replies[k].tag \in {"note_saved", "idea_saved"} =>
                  \E i \in 1..Len(R.notes) :
                    R.notes[i].id = R.ids[1] /\ R.notes[i].content = t
            /\ R.replies[k].tag = "project_created" =>
                  \E i \in 1..Len(R.projects) :
                    R.projects[i].id = t /\ R.projects[i].title = t

Retains(before, after) ==
    \A i \in 1..Len(before) : \E j \in 1..Len(after) : after[j].id = before[i].id

(* C34: every record of the notes or projects collection before a          *)
(* create_note, create_idea, create_project or update_note call is there   *)
(* with the same id after it, whatever file access failed.                 *)
C34_NoOperationRemovesRecords ==
    \A io \in AllFaults, content \in Texts :
      /\ \A project_id \in {None} \cup Texts :
           Retains(notes, create_note(notes, content, project_id, io).notes)
      /\ Retains(notes, create_idea(notes, content, io).notes)
      /\ Retains(projects, create_project(projects, content, io).projects)
      /\ \A note_id \in NoteIds :
           Retains(notes, update_note(notes, refined, note_id, content, io).notes)

(* C35: a note with RefinedNotes has the refined_content of the last of    *)
(* them as its content, and update_note returns True only when both the    *)
(* RefinedNote and the new content are persisted.                          *)
C35_ContentMatchesLastRefinement ==
    /\ \A i \in 1..Len(notes) :
         LET own == {k \in 1..Len(refined) : refined[k].id = notes[i].id}
         IN  own # {} => notes[i].content = refined[Max(own)].refined_content
    /\ \A io \in AllFaults, note_id \in NoteIds, new \in NoteContents :
         LET r == update_note(notes, refined, note_id, new, io)
         IN  r.ret =>
               /\ Len(r.refined) = Len(refined) + 1
               /\ r.refined[Len(r.refined)].id = note_id
               /\ r.refined[Len(r.refined)].refined_content = new
               /\ \E i \in 1..Len(r.notes) :
                     r.notes[i].id = note_id /\ r.notes[i].content = new

(* C36: the payloads the menus generate for a stored project (project_,   *)
(* new_project_note_, ask_project_ followed by its id) and for a stored    *)
(* note (note_, refine_note_, confirm_refine_ followed by its id) are      *)
(* parsed back by handle_callback to that id: the lookup it makes is for   *)
(* the id the payload was generated from, and finds the record.            *)
C36_PayloadsRoundTrip ==
    \A resp \in Responses :
      /\ \A i \in 1..Len(projects) :
           \A head \in {<<"project">>, <<"new", "project", "note">>,
                         <<"ask", "project">>} :
             LET R == handle_callback(Cur, AUTHORIZED_USER_ID,
                                      head \o projects[i].id, AllOk, "ok", resp)
             IN  /\ R.calls # <<>>
                 /\ R.calls[1].fn = "get_project"
                 /\ R.calls[1].text = projects[i].id
                 /\ R.calls[1].ok
      /\ \A i \in 1..Len(notes) :
           \A head \in {<<"note">>, <<"refine", "note">>, <<"confirm", "refine">>} :
             LET R == handle_callback(Cur, AUTHORIZED_USER_ID,
                                      Append(head, notes[i].id), AllOk, "ok", resp)
             IN  /\ R.calls # <<>>
                 /\ R.calls[1].fn = "get_note"
                 /\ R.calls[1].id = notes[i].id
                 /\ R.calls[1].ok

(* The entities a pending state names are stored. *)
RefsExist(st, ns, ps) ==
    st.kind = "dict" =>
      /\ st.state \in {"waiting_for_project_note", "project_chat"} =>
            \E i \in 1..Len(ps) : ps[i].id = st.project_id
      /\ (st.state = "waiting_for_refinement" /\ st.note_id # "") =>
            \E i \in 1..Len(ns) : ns[i].id = st.note_id

(* No access fails, the read of notes.json fails, the read of              *)
(* projects.json fails, every access fails.                                *)
FaultCases ==
    {AllOk, [AllOk EXCEPT !.nr = FALSE], [AllOk EXCEPT !.pr = FALSE],
     [nr |-> FALSE, nw |-> FALSE, pr |-> FALSE, pw |-> FALSE,
      rr |-> FALSE, rw |-> FALSE]}

RefPayloads ==
    {<<"new", "project", "note">> \o t : t \in Texts}
    \cup {<<"ask", "project">> \o t : t \in Texts}
    \cup {<<"chat", "project">> \o t : t \in Texts}
    \cup {<<"refine", "note", id>> : id \in NoteIds}
    \cup {<<"confirm", "refine", id>> : id \in NoteIds}

(* C37: the pending state of every user names only stored entities: the    *)
(* project of AwaitingProjectNote and ProjectChat is in the projects       *)
(* collection and the note of AwaitingRefinement is in the notes           *)
(* collection; and this is still so after any event that sets such a state *)
(* or writes a collection, also when file accesses fail in it.             *)
C37_PendingStateRefsExist ==
    /\ \A u \in Users : RefsExist(user_states[u], notes, projects)
    /\ \A io \in FaultCases, resp \in Responses :
         /\ \A data \in RefPayloads, out \in {"ok", "fail"} :
              LET R == handle_callback(Cur, AUTHORIZED_USER_ID, data, io, out, resp)
              IN  RefsExist(R.state, R.notes, R.projects)
         /\ \A t \in Texts :
              LET R == handle_message(Cur, AUTHORIZED_USER_ID, t, io, "ok", resp)
              IN  RefsExist(R.state, R.notes, R.projects)

(* The user is asked to confirm the refinement of the second stored note. *)
C37_Witness ==
    /\ Len(notes) = 2
    /\ user_states[AUTHORIZED_USER_ID].kind = "dict"
    /\ user_states[AUTHORIZED_USER_ID].state = "waiting_for_refinement"
    /\ user_states[AUTHORIZED_USER_ID].note_id = notes[2].id

NavigationPayloads ==
    {<<"menu", "projects">>, <<"menu", "notes">>, <<"help">>, <<"help", "notes">>,
     <<"base", "prompt">>}
    \cup {<<"note", id>> : id \in NoteIds}
    \cup {<<"project">> \o t : t \in Texts}

(* What the start, menu and help commands and the navigation callbacks     *)
(* return for the authorized user in the current state.                    *)
NavigationResults ==
    {start(Cur, AUTHORIZED_USER_ID), help_command(Cur, AUTHORIZED_USER_ID),
     menu_command(Cur, AUTHORIZED_USER_ID)}
    \cup {handle_callback(Cur, AUTHORIZED_USER_ID, data, io, out, resp) :
            data \in NavigationPayloads, io \in FaultCases,
            out \in {"ok", "raise"}, resp \in Responses}

C39_FailedWriteKeepsMemory ==
    /\ prompt_manager.base_prompt = prompt_manager.base_prompt_file
    /\ prompt_manager.context = prompt_manager.context_file
    /\ \A new_content \in Texts \cup Responses :
         LET r == update_base_prompt(prompt_manager, new_content, FALSE)
         IN  ~r.ret /\ r.pm = prompt_manager
    /\ \A key \in ContextKeys, value \in ContextValues :
         LET r == set_context(prompt_manager, key, value, FALSE)
         IN  ~r.ret /\ r.pm = prompt_manager
    /\ LET r == clear_context(prompt_manager, FALSE)
       IN  ~r.ret /\ r.pm = prompt_manager

====
